---- MODULE Spec2Model ----
(***************************************************************************)
(* Admin backend of the RAG gateway: account registration and login        *)
(* (controllers/authController.js), the bearer-token gate                  *)
(* (middleware/auth.js), and per-user resource provisioning                *)
(* (services/provisioningService.js).                                      *)
(*                                                                         *)
(* Strings are TLA+ strings, taken apart with Len and SubSeq.  Every HTTP  *)
(* request is a slot of `calls`; a handler is split into steps exactly at  *)
(* the awaits at which it touches the account store.                       *)
(***************************************************************************)
EXTENDS Integers, Sequences, FiniteSets, TLC

VARIABLES
  env,      \* process.env, read once at startup and never changed
  schema,   \* the paths the User model declares, fixed when it is compiled
  now,      \* wall clock, in seconds (Math.floor(Date.now() / 1000))
  ticks,    \* how many times the clock has advanced
  pid,      \* identity of the running server process
  users,    \* the `users` collection: _id -> stored document
  nextId,   \* number of ObjectIds generated so far
  calls,    \* the requests in flight, one slot each
  answered  \* the request answered last, with its answer

vars == <<env, schema, now, ticks, pid, users, nextId, calls, answered>>

-----------------------------------------------------------------------------
(* Bounds of the model *)

MaxCalls == 2
MaxUsers == 2
MaxTicks == 2

-----------------------------------------------------------------------------
(* Strings *)

CharAt(s, i) == SubSeq(s, i, i)

RECURSIVE IndexOf(_, _, _)
\* String.prototype.indexOf, 1-based, 0 when ch does not occur from i on
IndexOf(s, ch, i) ==
  IF i > Len(s) THEN 0
  ELSE IF CharAt(s, i) = ch THEN i
  ELSE IndexOf(s, ch, i + 1)

UpperChars == "ABCDEFGHIJKLMNOPQRSTUVWXYZ"
LowerChars == "abcdefghijklmnopqrstuvwxyz"
DigitChars == "0123456789"
SpaceChars == " "

\* the characters of a string, as a set
CharsOf(s) == {CharAt(s, i) : i \in 1 .. Len(s)}

UpperSet == CharsOf(UpperChars)
LowerSet == CharsOf(LowerChars)
DigitSet == CharsOf(DigitChars)
SpaceSet == CharsOf(SpaceChars)

LowerOf == [ch \in UpperSet |-> CharAt(LowerChars, IndexOf(UpperChars, ch, 1))]

LowerChar(ch) == IF ch \in UpperSet THEN LowerOf[ch] ELSE ch

RECURSIVE ToLowerCase(_)
ToLowerCase(s) ==
  IF s = "" THEN ""
  ELSE LowerChar(CharAt(s, 1)) \o ToLowerCase(SubSeq(s, 2, Len(s)))

RECURSIVE TrimStart(_)
TrimStart(s) ==
  IF s # "" /\ CharAt(s, 1) \in SpaceSet
  THEN TrimStart(SubSeq(s, 2, Len(s)))
  ELSE s

RECURSIVE TrimEnd(_)
TrimEnd(s) ==
  IF s # "" /\ CharAt(s, Len(s)) \in SpaceSet
  THEN TrimEnd(SubSeq(s, 1, Len(s) - 1))
  ELSE s

\* String.prototype.trim
Trim(s) == TrimEnd(TrimStart(s))

RECURSIVE StripTrailing(_, _)
\* s.replace(/c+$/, '')
StripTrailing(s, c) ==
  IF s # "" /\ CharAt(s, Len(s)) = c
  THEN StripTrailing(SubSeq(s, 1, Len(s) - 1), c)
  ELSE s

RECURSIVE StripLeading(_, _)
\* s.replace(/^c+/, '')
StripLeading(s, c) ==
  IF s # "" /\ CharAt(s, 1) = c
  THEN StripLeading(SubSeq(s, 2, Len(s)), c)
  ELSE s

\* JavaScript's a || b on strings: the empty string is falsy
OrElse(a, b) == IF a = "" THEN b ELSE a

-----------------------------------------------------------------------------
(* provisioningService.js: pure helpers *)

IsSlugChar(ch) == ch \in LowerSet \/ ch \in DigitSet

RECURSIVE CollapseNonSlug(_, _)
\* s.replace(/[^a-z0-9]+/g, '-'): inRun says the previous character was
\* already part of the run being replaced
CollapseNonSlug(s, inRun) ==
  IF s = "" THEN ""
  ELSE IF IsSlugChar(CharAt(s, 1))
       THEN CharAt(s, 1) \o CollapseNonSlug(SubSeq(s, 2, Len(s)), FALSE)
       ELSE (IF inRun THEN "" ELSE "-")
              \o CollapseNonSlug(SubSeq(s, 2, Len(s)), TRUE)

\* the second replace dropped: hyphens at the ends stay
toSlug_NoStrip(value) ==
  IF value = "" THEN "user"
  ELSE OrElse(CollapseNonSlug(ToLowerCase(Trim(value)), FALSE), "user")

toSlug(value) ==
  IF value = "" THEN "user"
  ELSE OrElse(
         StripTrailing(
           StripLeading(CollapseNonSlug(ToLowerCase(Trim(value)), FALSE), "-"),
           "-"),
         "user")

joinUrl(base, path) ==
  LET sanitizedBase == StripTrailing(base, "/")
      sanitizedPath == IF path # "" /\ CharAt(path, 1) = "/"
                       THEN path ELSE "/" \o path
  IN  sanitizedBase \o sanitizedPath

\* crypto.createHash('sha1').update(input).digest('hex'), tabulated on the
\* inputs the model can produce (TLC stops on any other input)
Sha1Hex(input) ==
  CASE input = "65f0a1b2c3d4e5f6a7b8c901:alice" -> "48723916a4fd107b0c25c9b6cfab0d8100be251e"
    [] input = "65f0a1b2c3d4e5f6a7b8c901:Bob_1" -> "b2807fd8110b0f793ec59cbe37e089017de443cb"
    [] input = "65f0a1b2c3d4e5f6a7b8c901:carol" -> "555510713e10948362c206da120c2bf119f476dd"
    [] input = "65f0a1b2c3d4e5f6a7b8c901:alice_2" -> "cf53b92ec9f080fe075bcb6d14ad1126880c9cf7"
    [] input = "65f0a1b2c3d4e5f6a7b8c901:Alice" -> "10b57238c969f698855237d1b1a97622c1dc9d94"
    [] input = "65f0a1b2c3d4e5f6a7b8c902:alice" -> "3012ac9b5a10672eabe5bd11a2ea681e5c8180c7"
    [] input = "65f0a1b2c3d4e5f6a7b8c902:Bob_1" -> "a926b33abcaa2a4dd6c64ea750d2ed1867f6ad8c"
    [] input = "65f0a1b2c3d4e5f6a7b8c902:carol" -> "c85e78f8e5644673e20afedd5723c7cdd54e4e0d"
    [] input = "65f0a1b2c3d4e5f6a7b8c902:alice_2" -> "94550780a770fa520d93df9504fa5602b726252f"
    [] input = "65f0a1b2c3d4e5f6a7b8c902:Alice" -> "00cdcee0d9bf524ec6330a8b48963e0277eed319"
    [] input = "65f0a1b2c3d4e5f6a7b8c903:alice" -> "52538d908fc83b6fe68e9ce9eade2de17d0e95e4"
    [] input = "65f0a1b2c3d4e5f6a7b8c903:Bob_1" -> "51f9bb99d98731183f49ed2d4bb5edd1add28134"
    [] input = "65f0a1b2c3d4e5f6a7b8c903:carol" -> "d7484119f5c35cbaba916ecf9c46bbb6a36a2504"
    [] input = "65f0a1b2c3d4e5f6a7b8c903:alice_2" -> "c9402ed8fc833ab5adae45068fc11589975a4e3c"
    [] input = "65f0a1b2c3d4e5f6a7b8c903:Alice" -> "6a2b4e8dcbe92dfb28f9ce63560bc9cd4c7bf95d"
    [] input = "65f0a1b2c3d4e5f6a7b8c904:alice" -> "9a657cfd02b27551cf9508e8d0b7f3744beff47b"
    [] input = "65f0a1b2c3d4e5f6a7b8c904:Bob_1" -> "b887fcdc567f97e7591aae2f7aa9938880c610b0"
    [] input = "65f0a1b2c3d4e5f6a7b8c904:carol" -> "6be3b09ee27740b5ef2980c29b0470b148812298"
    [] input = "65f0a1b2c3d4e5f6a7b8c904:alice_2" -> "acfadbd13f96f0733a7613916132f03087fa591d"
    [] input = "65f0a1b2c3d4e5f6a7b8c904:Alice" -> "1fa40090fe8c9ea2710ca74af21dfe702413eccd"
    [] input = "65f0a1b2c3d4e5f6a7b8c905:alice" -> "5754275e6b9a8c3fb94aa43e35705ba8cf369dc6"
    [] input = "65f0a1b2c3d4e5f6a7b8c905:Bob_1" -> "528efad28f01537359096fbd15bbdce5f31d9642"
    [] input = "65f0a1b2c3d4e5f6a7b8c905:carol" -> "8b071b9335f53149fc68e8a18154a7dc2c32c1e5"
    [] input = "65f0a1b2c3d4e5f6a7b8c905:alice_2" -> "552fae859323df48bb75a6bbe5f809daaf922a43"
    [] input = "65f0a1b2c3d4e5f6a7b8c905:Alice" -> "3f768c26e0e8231e90470aaf77ba17dc28535fd1"
    [] input = "65f0a1b2c3d4e5f6a7b8c906:alice" -> "13fc4863c948216878702192c31e5c52bdf7530d"
    [] input = "65f0a1b2c3d4e5f6a7b8c906:Bob_1" -> "e9bc64091f4eb7e73086a0f7b488e2c1975049c1"
    [] input = "65f0a1b2c3d4e5f6a7b8c906:carol" -> "cbbb6749657700bdca235c0e7030f79ece26b9f7"
    [] input = "65f0a1b2c3d4e5f6a7b8c906:alice_2" -> "db859e945eebd1e11751c2adf02190566bb0ac25"
    [] input = "65f0a1b2c3d4e5f6a7b8c906:Alice" -> "a520882161d5e809ee322daa40bf45044d30ecfd"
    [] input = "65f0a1b2c3d4e5f6a7b00fbf:alice" -> "e57ba1e7bad4674c959534469b56c67dc288217f"
    [] input = "65f0a1b2c3d4e5f6a7b00fbf:Alice" -> "c1258549d793651ebbd42d5a40c373d101036e2e"
    [] input = "65f0a1b2c3d4e5f6a7b00fbf:Bob_1" -> "1e5b96de6d2e174edefd56408f4099d9933b5a23"
    [] input = "65f0a1b2c3d4e5f6a7b008d6:alice" -> "9110a35d3a7260ca9340bed981c7b777a539c9e5"
    [] input = "65f0a1b2c3d4e5f6a7b008d6:Alice" -> "683ca1e7ba41993b98676026ba954935960e0836"
    [] input = "65f0a1b2c3d4e5f6a7b008d6:Bob_1" -> "abe68315ea9ba123011bd966b6734b8bbe908248"

\* a resource id salted per call with the number of requests in flight
buildResourceId_SaltedPerCall(userId, username) ==
  toSlug(username) \o "-"
    \o SubSeq(Sha1Hex(userId \o ":" \o username), 1, 10)
    \o ToString(Cardinality({c \in DOMAIN calls : calls[c].op # "none"}))

buildResourceId(userId, username) ==
  LET slug == toSlug(username)
      hash == SubSeq(Sha1Hex(userId \o ":" \o username), 1, 10)
  IN  slug \o "-" \o hash

\* String.prototype.slice(-n)
SliceLast(s, n) == IF Len(s) <= n THEN s ELSE SubSeq(s, Len(s) - n + 1, Len(s))

ProvisionError ==
  [message |-> "Cannot provision resources without userId and username",
   statusCode |-> 500]

\* the object provisionResourcesForUser returns, from the resource id, the
\* slug and the four base addresses
Locators(resourceId, slug, databaseBase, botBase, schedulerBase, scraperBase) ==
  [databaseUri |-> StripTrailing(databaseBase, "/") \o "/"
                     \o ("rag_" \o slug \o "_" \o SliceLast(resourceId, 6)),
   botEndpoint |-> joinUrl(botBase, "/api/bots/" \o resourceId),
   schedulerEndpoint |-> joinUrl(schedulerBase, "/api/schedules/" \o resourceId),
   scraperEndpoint |-> joinUrl(scraperBase, "/api/scrape/" \o resourceId)]

\* provisioning with a resource id stamped with the time of the call
provisionResourcesForUser_Timestamped(userId, username) ==
  IF userId = "" \/ username = ""
  THEN [threw |-> TRUE, error |-> ProvisionError]
  ELSE [threw |-> FALSE,
        resources |->
          Locators(buildResourceId(userId, username) \o "_" \o ToString(now),
                   toSlug(username),
                   OrElse(env.DEFAULT_DATABASE_URI_BASE, "mongodb://localhost:27017"),
                   OrElse(env.DEFAULT_BOT_BASE_URL, "http://localhost:8000"),
                   OrElse(env.DEFAULT_SCHEDULER_BASE_URL, "http://localhost:9000"),
                   OrElse(env.DEFAULT_SCRAPER_BASE_URL, "http://localhost:7000"))]

\* provisioning that answers a missing argument with empty locators
provisionResourcesForUser_EmptyOnAbsent(userId, username) ==
  IF userId = "" \/ username = ""
  THEN [threw |-> FALSE,
        resources |-> [databaseUri |-> "", botEndpoint |-> "",
                       schedulerEndpoint |-> "", scraperEndpoint |-> ""]]
  ELSE [threw |-> FALSE,
        resources |->
          Locators(buildResourceId(userId, username), toSlug(username),
                   OrElse(env.DEFAULT_DATABASE_URI_BASE, "mongodb://localhost:27017"),
                   OrElse(env.DEFAULT_BOT_BASE_URL, "http://localhost:8000"),
                   OrElse(env.DEFAULT_SCHEDULER_BASE_URL, "http://localhost:9000"),
                   OrElse(env.DEFAULT_SCRAPER_BASE_URL, "http://localhost:7000"))]

\* const provisionResourcesForUser = ({ userId, username }) => ...
provisionResourcesForUser(userId, username) ==
  IF userId = "" \/ username = ""
  THEN [threw |-> TRUE, error |-> ProvisionError]
  ELSE [threw |-> FALSE,
        resources |->
          Locators(buildResourceId(userId, username), toSlug(username),
                   OrElse(env.DEFAULT_DATABASE_URI_BASE, "mongodb://localhost:27017"),
                   OrElse(env.DEFAULT_BOT_BASE_URL, "http://localhost:8000"),
                   OrElse(env.DEFAULT_SCHEDULER_BASE_URL, "http://localhost:9000"),
                   OrElse(env.DEFAULT_SCRAPER_BASE_URL, "http://localhost:7000"))]

-----------------------------------------------------------------------------
(* Configuration and the account store *)

JwtSecret == "k3y-of-the-server"

EnvDefaults ==
  [JWT_SECRET |-> JwtSecret,
   DEFAULT_DATABASE_URI_BASE |-> "",
   DEFAULT_BOT_BASE_URL |-> "",
   DEFAULT_SCHEDULER_BASE_URL |-> "",
   DEFAULT_SCRAPER_BASE_URL |-> "",
   FASTAPI_BOT_URL |-> "",
   BOT_REQUEST_TIMEOUT |-> "",
   NODE_ENV |-> "",
   JWT_EXPIRATION |-> ""]

EnvCustom ==
  [JWT_SECRET |-> JwtSecret,
   DEFAULT_DATABASE_URI_BASE |-> "mongodb://db.internal:27017//",
   DEFAULT_BOT_BASE_URL |-> "http://bots.internal/",
   DEFAULT_SCHEDULER_BASE_URL |-> "http://sched.internal",
   DEFAULT_SCRAPER_BASE_URL |-> "http://scrape.internal///",
   FASTAPI_BOT_URL |-> "http://bot:8000",
   BOT_REQUEST_TIMEOUT |-> "5000",
   NODE_ENV |-> "production",
   JWT_EXPIRATION |-> "2h"]

Envs == {EnvDefaults, EnvCustom}

Pids == {"pid-4711", "pid-4712"}

\* the value of a missing document or field (null / undefined)
Null == [null |-> TRUE]
IsNull(x) == "null" \in DOMAIN x

ObjectIdPrefix == "65f0a1b2c3d4e5f6a7b8c90"
\* the n-th ObjectId this deployment generates
ObjectId(n) == ObjectIdPrefix \o CharAt(DigitChars, n + 1)

LocatorFields == {"databaseUri", "botEndpoint", "schedulerEndpoint", "scraperEndpoint"}

\* the paths UserSchema declares (timestamps aside)
UserSchema == {"name", "email", "username", "password"}

\* the paths of the Account of the specification: those of UserSchema and
\* the four resource locators
AccountSchema == UserSchema \cup LocatorFields

Schemas == {UserSchema, AccountSchema}

\* Model.findOne({ email: value }): stored emails are compared exactly
FindOneByEmail(value) ==
  IF \E id \in DOMAIN users : users[id].email = value
  THEN users[CHOOSE id \in DOMAIN users : users[id].email = value]
  ELSE Null

\* Model.findOne({ username: value })
FindOneByUsername(value) ==
  IF \E id \in DOMAIN users : users[id].username = value
  THEN users[CHOOSE id \in DOMAIN users : users[id].username = value]
  ELSE Null

\* a collection whose unique indexes were never built: no insert is refused
DuplicateKey_NoIndex(doc) == FALSE

\* the unique indexes of UserSchema: an insert that repeats an indexed value
\* is refused by the store with duplicate-key error E11000
DuplicateKey(doc) ==
  \E id \in DOMAIN users :
    users[id].email = doc.email \/ users[id].username = doc.username

-----------------------------------------------------------------------------
(* Password hashing (bcryptjs) *)

Salts == {"N9qo8uLOickgx2ZMRZoMye"}

BcryptPrefix == "$2a$10$"

\* the 31-character digest part of a bcrypt hash, tabulated
BcryptDigest(password, salt) ==
  CASE password = "secret1" /\ salt = "N9qo8uLOickgx2ZMRZoMye" -> "IjZAgcfl7p92ldGxad68LJZdL17lhWy"
    [] password = "secret1" /\ salt = "7fJq1xWb3Tt0pYc5uKd2Ae" -> "q0mW8yQ1xkT3vN5bR7cD9eF2gH4jK6l"
    [] password = "hunter22" /\ salt = "N9qo8uLOickgx2ZMRZoMye" -> "Zr4tY6uI8oP0aS2dF4gH6jK8lZ0xC2v"
    [] password = "hunter22" /\ salt = "7fJq1xWb3Tt0pYc5uKd2Ae" -> "B3nM5qW7eR9tY1uI3oP5aS7dF9gH1jK"

\* bcrypt.hash(password, salt)
BcryptHash(password, salt) == BcryptPrefix \o salt \o BcryptDigest(password, salt)

\* bcrypt.compare(password, hash): rehash with the salt the hash carries
BcryptCompare(password, hash) ==
  LET salt == SubSeq(hash, Len(BcryptPrefix) + 1, Len(BcryptPrefix) + 22)
  IN  hash = BcryptHash(password, salt)

-----------------------------------------------------------------------------
(* Requests *)

Calls == 1 .. MaxCalls

IdleCall == [op |-> "none", pc |-> "idle"]

NoAnswer == [op |-> "none"]

InFlight(c) == calls[c].pc # "idle"
Quiet == \A c \in Calls : ~InFlight(c)

\* requests are interchangeable: a new one takes the lowest free slot
FreeSlot(c) ==
  /\ calls[c].pc = "idle"
  /\ \A d \in Calls : d < c => calls[d].pc # "idle"

Response(status, body) == [status |-> status, body |-> body]

-----------------------------------------------------------------------------
(* UserSchema validation on save *)

RECURSIVE AllCharsIn(_, _)
AllCharsIn(s, chars) ==
  s = "" \/ (CharAt(s, 1) \in chars /\ AllCharsIn(SubSeq(s, 2, Len(s)), chars))

RECURSIVE CountChar(_, _)
CountChar(s, ch) ==
  IF s = "" THEN 0
  ELSE (IF CharAt(s, 1) = ch THEN 1 ELSE 0) + CountChar(SubSeq(s, 2, Len(s)), ch)

\* /^[^\s@]+@[^\s@]+\.[^\s@]+$/
MatchesEmail(s) ==
  /\ CountChar(s, "@") = 1
  /\ CountChar(s, " ") = 0
  /\ IndexOf(s, "@", 1) > 1
  /\ \E j \in 1 .. Len(s) :
       /\ CharAt(s, j) = "."
       /\ j > IndexOf(s, "@", 1) + 1
       /\ j < Len(s)

UsernameSet == LowerSet \cup UpperSet \cup DigitSet \cup {"_"}

\* /^[a-zA-Z0-9_]+$/
MatchesUsername(s) ==
  s # "" /\ AllCharsIn(s, UsernameSet)

MinNameLength == 2
MaxNameLength == 100
MinUsernameLength == 3
MaxUsernameLength == 30
MinPasswordLength == 6

\* the messages of the validators that fail, in schema order
ValidationMessages(doc) ==
  (IF doc.name = "" THEN <<"Name is required">>
   ELSE IF Len(doc.name) < MinNameLength THEN <<"Name must be at least 2 characters">>
   ELSE IF Len(doc.name) > MaxNameLength THEN <<"Name cannot exceed 100 characters">>
   ELSE <<>>)
  \o
  (IF doc.email = "" THEN <<"Email is required">>
   ELSE IF ~MatchesEmail(doc.email) THEN <<"Please provide a valid email address">>
   ELSE <<>>)
  \o
  (IF doc.username = "" THEN <<"Username is required">>
   ELSE IF Len(doc.username) < MinUsernameLength THEN <<"Username must be at least 3 characters">>
   ELSE IF Len(doc.username) > MaxUsernameLength THEN <<"Username cannot exceed 30 characters">>
   ELSE IF ~MatchesUsername(doc.username)
   THEN <<"Username can only contain letters, numbers, and underscores">>
   ELSE <<>>)
  \o
  (IF doc.password = "" THEN <<"Password is required">>
   ELSE IF Len(doc.password) < MinPasswordLength THEN <<"Password must be at least 6 characters">>
   ELSE <<>>)

RECURSIVE Join(_, _)
\* Array.prototype.join
Join(msgs, sep) ==
  IF msgs = <<>> THEN ""
  ELSE IF Len(msgs) = 1 THEN msgs[1]
  ELSE msgs[1] \o sep \o Join(Tail(msgs), sep)

-----------------------------------------------------------------------------
(* authController.registerUser *)

RegisterBodies ==
  {[name |-> "Al", email |-> "a@x.io", username |-> "alice", password |-> "secret1"],
   [name |-> "Al", email |-> "A@x.io", username |-> "Bob_1", password |-> "secret1"],
   [name |-> "Bo", email |-> "b@x.io", username |-> "alice", password |-> "hunter22"],
   [name |-> "Bo", email |-> "b@x.io", username |-> "Bob_1", password |-> "hunter22"],
   [name |-> "C", email |-> "c@x.io", username |-> "carol", password |-> "hunter22"]}

\* a summary that carries the stored password hash along
PublicUser_WithPassword(user) ==
  [id |-> user._id, name |-> user.name, username |-> user.username,
   email |-> user.email, password |-> user.password]

\* the user object of the register and login answers
PublicUser(user) ==
  [id |-> user._id, name |-> user.name, username |-> user.username, email |-> user.email]

\* the answer after both pre-check queries, or Null to go on to the save
RegisterPrecheck(existingEmail, existingUsername) ==
  IF ~IsNull(existingEmail)
  THEN Response(400, [error |-> "Email already in use", field |-> "email"])
  ELSE IF ~IsNull(existingUsername)
  THEN Response(400, [error |-> "Username already in use", field |-> "username"])
  ELSE Null

\* new User({...}): the document built from the request body, with the
\* paths of the schema; a locator path the schema declares is not set yet
NewUser(body, hashedPassword) ==
  [f \in {"_id"} \cup schema |->
     CASE f = "_id" -> ObjectId(nextId + 1)
       [] f = "name" -> Trim(body.name)
       [] f = "email" -> Trim(ToLowerCase(body.email))
       [] f = "username" -> Trim(body.username)
       [] f = "password" -> hashedPassword
       [] OTHER -> ""]

\* the outcome of `await user.save()`: err is the name of the error thrown
SaveOutcome(user) ==
  IF ValidationMessages(user) # <<>> THEN "ValidationError"
  ELSE IF DuplicateKey(user) THEN "MongoServerError"
  ELSE "none"

\* the answer of registerUser once save has resolved or thrown
RegisterAnswer(user, err) ==
  IF err = "none"
  THEN Response(201, [message |-> "User registered successfully", user |-> PublicUser(user)])
  ELSE IF err = "ValidationError"
  THEN Response(400, [error |-> Join(ValidationMessages(user), ", ")])
  ELSE Response(500, [error |-> "Server error during registration"])

NumRegistering == Cardinality({c \in Calls : calls[c].op = "register" /\ InFlight(c)})

\* the first query with the email as typed
EmailLookupKey_AsTyped(email) == email

\* the value the first query looks up: email.toLowerCase()
EmailLookupKey(email) == ToLowerCase(email)

\* entry of the handler and its first query, findOne({ email })
RegFindEmail(c, body) ==
  /\ FreeSlot(c)
  /\ nextId + NumRegistering < MaxUsers
  /\ \E existingEmail \in {FindOneByEmail(EmailLookupKey(body.email))} :
       calls' = [calls EXCEPT ![c] =
         [op |-> "register", pc |-> "findUsername", req |-> body,
          existingEmail |-> existingEmail]]
  /\ UNCHANGED <<env, schema, now, ticks, pid, users, nextId, answered>>

\* the second query, findOne({ username }), and the two conflict checks
RegFindUsername(c) ==
  /\ calls[c].op = "register" /\ calls[c].pc = "findUsername"
  /\ \E existingUsername \in {FindOneByUsername(calls[c].req.username)} :
     \E answer \in {RegisterPrecheck(calls[c].existingEmail, existingUsername)} :
       IF IsNull(answer)
       THEN /\ calls' = [calls EXCEPT ![c] =
                 [op |-> "register", pc |-> "save", req |-> calls[c].req]]
            /\ UNCHANGED answered
       ELSE /\ calls' = [calls EXCEPT ![c] = IdleCall]
            /\ answered' = [op |-> "register", req |-> calls[c].req,
                            err |-> "none", saved |-> FALSE, res |-> answer]
  /\ UNCHANGED <<env, schema, now, ticks, pid, users, nextId>>

\* genSalt, hash, new User, save, and the answer
RegSave(c) ==
  /\ calls[c].op = "register" /\ calls[c].pc = "save"
  /\ \E salt \in Salts :
     \E user \in {NewUser(calls[c].req, BcryptHash(calls[c].req.password, salt))} :
     \E err \in {SaveOutcome(user)} :
       /\ users' = IF err = "none"
                   THEN [id \in DOMAIN users \cup {user._id} |->
                           IF id = user._id THEN user ELSE users[id]]
                   ELSE users
       /\ answered' = [op |-> "register", req |-> calls[c].req,
                       err |-> err, saved |-> (err = "none"),
                       res |-> RegisterAnswer(user, err)]
  /\ calls' = [calls EXCEPT ![c] = IdleCall]
  /\ nextId' = nextId + 1
  /\ UNCHANGED <<env, schema, now, ticks, pid>>

-----------------------------------------------------------------------------
(* JSON web tokens (jsonwebtoken) *)

OneDay == 86400

\* jwt.sign(claims, secret, { expiresIn: '1d' }): HS256 unless told otherwise
\* a token signed with no lifetime: it expires the second it is issued
JwtSign_NoLifetime(claims, secret, expiresIn) ==
  [kind |-> "jwt", alg |-> "HS256", key |-> secret,
   payload |-> [userId |-> claims.userId, username |-> claims.username,
                email |-> claims.email, iat |-> now, exp |-> now]]

\* jwt.sign(claims, secret, { expiresIn })
JwtSign(claims, secret, expiresIn) ==
  [kind |-> "jwt", alg |-> "HS256", key |-> secret,
   payload |-> [userId |-> claims.userId, username |-> claims.username,
                email |-> claims.email, iat |-> now, exp |-> now + expiresIn]]

\* the algorithms jwt.verify accepts for a secret when none are named
HmacAlgorithms == {"HS256", "HS384", "HS512"}

\* jwt.decode in place of jwt.verify: the signature is not checked
JwtVerify_DecodeOnly(token, secret) ==
  IF token.kind # "jwt"
  THEN [ok |-> FALSE, name |-> "JsonWebTokenError", message |-> "jwt malformed"]
  ELSE IF now >= token.payload.exp
  THEN [ok |-> FALSE, name |-> "TokenExpiredError", message |-> "jwt expired"]
  ELSE [ok |-> TRUE, decoded |-> token.payload]

\* jwt.verify(token, secret): the decoded payload, or the error thrown
JwtVerify(token, secret) ==
  IF token.kind # "jwt"
  THEN [ok |-> FALSE, name |-> "JsonWebTokenError", message |-> "jwt malformed"]
  ELSE IF token.alg \notin HmacAlgorithms
  THEN [ok |-> FALSE, name |-> "JsonWebTokenError", message |-> "invalid algorithm"]
  ELSE IF token.key # secret
  THEN [ok |-> FALSE, name |-> "JsonWebTokenError", message |-> "invalid signature"]
  ELSE IF now >= token.payload.exp
  THEN [ok |-> FALSE, name |-> "TokenExpiredError", message |-> "jwt expired"]
  ELSE [ok |-> TRUE, decoded |-> token.payload]

-----------------------------------------------------------------------------
(* authController.loginUser *)

LoginBodies ==
  {[username |-> " alice ", password |-> "secret1"],
   [username |-> "alice", password |-> "hunter22"],
   [username |-> "Bob_1", password |-> "secret1"],
   [username |-> "mallory", password |-> "secret1"]}

\* loginUser with an answer of its own for an unknown username
LoginAnswer_UserNotFound(user, password) ==
  IF IsNull(user)
  THEN Response(404, [error |-> "User not found"])
  ELSE IF ~BcryptCompare(password, user.password)
  THEN Response(401, [error |-> "Invalid credentials"])
  ELSE Response(200,
         [token |-> JwtSign([userId |-> user._id, username |-> user.username,
                             email |-> user.email],
                            env.JWT_SECRET, OneDay),
          user |-> PublicUser(user)])

\* the answer of loginUser for the document findOne returned
LoginAnswer(user, password) ==
  IF IsNull(user)
  THEN Response(401, [error |-> "Invalid credentials"])
  ELSE IF ~BcryptCompare(password, user.password)
  THEN Response(401, [error |-> "Invalid credentials"])
  ELSE Response(200,
         [token |-> JwtSign([userId |-> user._id, username |-> user.username,
                             email |-> user.email],
                            env.JWT_SECRET, OneDay),
          user |-> PublicUser(user)])

\* the handler reads the store once, in findOne({ username: username.trim() })
loginUser(body) ==
  /\ \E user \in {FindOneByUsername(Trim(body.username))} :
       answered' =
         [op |-> "login", req |-> body,
          found |-> ~IsNull(user),
          isMatch |-> (~IsNull(user) /\ BcryptCompare(body.password, user.password)),
          res |-> LoginAnswer(user, body.password)]
  /\ UNCHANGED <<env, schema, now, ticks, pid, users, nextId, calls>>

-----------------------------------------------------------------------------
(* middleware/auth.js and the protected routes *)

ProtectedRoutes == {"GET /api/user/me", "PUT /api/user/me", "POST /api/bot/run"}

Word(text) == [kind |-> "word", text |-> text]

\* an Authorization header is the list of the pieces a single space
\* separates: authHeader.split(' ')
NoHeader == [present |-> FALSE, parts |-> <<>>]
Header(parts) == [present |-> TRUE, parts |-> parts]

\* !token: undefined and the empty string are falsy
Falsy(part) == IsNull(part) \/ (part.kind = "word" /\ part.text = "")

\* authHeader && authHeader.split(' ')[1]
TokenOf(authHeader) ==
  IF ~authHeader.present \/ authHeader.parts = <<Word("")>> THEN Null
  ELSE IF Len(authHeader.parts) >= 2 THEN authHeader.parts[2]
  ELSE Null

\* a middleware that looks the account of the token up in the store and
\* refuses a token whose account is gone or was renamed
auth_AccountLookup(authHeader) ==
  LET token == TokenOf(authHeader)
  IN  IF Falsy(token)
      THEN [next |-> FALSE, reqUser |-> Null,
            res |-> Response(401, [error |-> "No token, authorization denied"])]
      ELSE IF /\ JwtVerify(token, env.JWT_SECRET).ok
              /\ token.payload.userId \in DOMAIN users
              /\ users[token.payload.userId].username = token.payload.username
      THEN [next |-> TRUE, reqUser |-> JwtVerify(token, env.JWT_SECRET).decoded, res |-> Null]
      ELSE [next |-> FALSE, reqUser |-> Null,
            res |-> Response(401, [error |-> "Token is not valid"])]

\* the middleware: either next() with req.user set, or a 401 answer
auth(authHeader) ==
  LET token == TokenOf(authHeader)
  IN  IF Falsy(token)
      THEN [next |-> FALSE, reqUser |-> Null,
            res |-> Response(401, [error |-> "No token, authorization denied"])]
      ELSE IF JwtVerify(token, env.JWT_SECRET).ok
      THEN [next |-> TRUE, reqUser |-> JwtVerify(token, env.JWT_SECRET).decoded, res |-> Null]
      ELSE [next |-> FALSE, reqUser |-> Null,
            res |-> Response(401, [error |-> "Token is not valid"])]

\* the tokens a client holds: the one of the last login answer, or the one
\* it sent last
KnownTokens ==
  IF answered.op = "login" /\ answered.res.status = 200
  THEN {answered.res.body.token}
  ELSE IF answered.op = "protected" /\ answered.sent.kind = "jwt"
  THEN {answered.sent}
  ELSE {}

\* what a client without the server's secret can make of a token
Forged(t) == [t EXCEPT !.key = "k3y-of-an-attacker"]

\* the headers a client sends, with the token it used (a word without one)
AuthHeaders ==
  {<<h, Word("")>> :
     h \in {NoHeader, Header(<<Word("Bearer")>>),
            Header(<<Word("Bearer"), Word("not-a-jwt")>>)}}
  \cup {<<Header(<<Word("Bearer"), t>>), t>> : t \in KnownTokens}
  \cup {<<Header(<<Word("Basic"), t>>), t>> : t \in KnownTokens}
  \cup {<<Header(<<t>>), t>> : t \in KnownTokens}
  \cup {<<Header(<<Word("Bearer"), Forged(t)>>), t>> : t \in KnownTokens}

\* header algorithms other than the one loginUser signs with
OtherAlgorithms == {"HS384", "HS512", "RS256", "none"}

\* the claims of a token signed again, with the same secret, under another
\* header algorithm
Resigned(t, alg) == [t EXCEPT !.alg = alg]

\* Bearer headers that carry such a token
ResignedHeaders ==
  {<<Header(<<Word("Bearer"), Resigned(t, alg)>>), Resigned(t, alg)>> :
     t \in KnownTokens, alg \in OtherAlgorithms}

\* GET /api/user/me as the spec and API.md describe it (the controller is
\* not among the source files): the stored account of the token's userId
\* without its password, or 404 when there is none
getMe(reqUser) ==
  IF reqUser.userId \in DOMAIN users
  THEN Response(200, [f \in DOMAIN users[reqUser.userId] \ {"password"} |->
                        users[reqUser.userId][f]])
  ELSE Response(404, [error |-> "User not found"])

\* router.<verb>(path, auth, ..., controller): the controller is reached
\* only through next(); of the controllers, the profile read answers here
ProtectedRequest(route, authHeader, t) ==
  /\ \E gate \in {auth(authHeader)} :
       answered' =
         [op |-> "protected", route |-> route, header |-> authHeader, sent |-> t,
          at |-> now, controllerRan |-> gate.next, reqUser |-> gate.reqUser,
          res |-> IF gate.next /\ route = "GET /api/user/me"
                  THEN getMe(gate.reqUser)
                  ELSE gate.res]
  /\ UNCHANGED <<env, schema, now, ticks, pid, users, nextId, calls>>

TickSteps == {1, OneDay - 1}

Tick(d) ==
  /\ ticks < MaxTicks
  /\ now' = now + d
  /\ ticks' = ticks + 1
  /\ UNCHANGED <<env, schema, pid, users, nextId, calls, answered>>

-----------------------------------------------------------------------------
(* provisioningService.js: provisioning of an account *)

ProvisionUserIds == {ObjectId(1), ObjectId(2), ""}
ProvisionUsernames == {"alice", "Bob_1", ""}

\* accounts of several users: ObjectIds of the deployment, and usernames
\* that differ in letter case only and so share a slug
AccountIds == {ObjectId(1), "65f0a1b2c3d4e5f6a7b00fbf", "65f0a1b2c3d4e5f6a7b008d6"}
AccountUsernames == {"alice", "Alice", "Bob_1"}

\* a direct call of the exported provisionResourcesForUser
ProvisionCall(userId, username) ==
  /\ \E out \in {provisionResourcesForUser(userId, username)} :
       answered' = [op |-> "provision", userId |-> userId, username |-> username,
                    at |-> now, by |-> pid, out |-> out]
  /\ UNCHANGED <<env, schema, now, ticks, pid, users, nextId, calls>>

\* the early return dropped: every call provisions
needsProvisioning_Always(userDoc) == TRUE

\* [a, b, c, d].some((value) => !value)
needsProvisioning(userDoc) ==
  \E f \in LocatorFields : f \notin DOMAIN userDoc \/ userDoc[f] = ""

\* set() of two of the four locators only
SetResources_TwoOnly(userDoc, resources) ==
  [f \in DOMAIN userDoc |->
     IF f \in {"databaseUri", "botEndpoint"} THEN resources[f] ELSE userDoc[f]]

\* userDoc.set(resources): the document with the four locators assigned; a
\* path the schema of the document does not declare is dropped (strict mode)
SetResources(userDoc, resources) ==
  [f \in DOMAIN userDoc |-> IF f \in LocatorFields THEN resources[f] ELSE userDoc[f]]

\* the paths set() marked modified: those whose value changed
ModifiedPaths(userDoc, resources) ==
  {f \in LocatorFields \cap DOMAIN userDoc : userDoc[f] # resources[f]}

\* the ids a caller may look up: the stored ones and one that is not stored
EnsureIds == DOMAIN users \cup {ObjectId(0)}

\* the caller loads the document it then hands to ensureUserResources
EnsureLoad(c, id) ==
  /\ FreeSlot(c)
  /\ calls' = [calls EXCEPT ![c] =
       [op |-> "ensure", pc |-> "loaded",
        userDoc |-> IF id \in DOMAIN users THEN users[id] ELSE Null]]
  /\ UNCHANGED <<env, schema, now, ticks, pid, users, nextId, answered>>

\* the caller hands in a document it loaded without the username (a
\* projection that leaves the field out)
EnsureLoadPartial(c, id) ==
  /\ FreeSlot(c)
  /\ id \in DOMAIN users
  /\ calls' = [calls EXCEPT ![c] =
       [op |-> "ensure", pc |-> "loaded",
        userDoc |-> [users[id] EXCEPT !.username = ""]]]
  /\ UNCHANGED <<env, schema, now, ticks, pid, users, nextId, answered>>

\* ensureUserResources up to its await: the checks, the computation, set()
EnsureCheck(c) ==
  /\ calls[c].op = "ensure" /\ calls[c].pc = "loaded"
  /\ \E userDoc \in {calls[c].userDoc} :
       IF IsNull(userDoc)
       THEN /\ calls' = [calls EXCEPT ![c] = IdleCall]
            /\ answered' = [op |-> "ensure", given |-> userDoc, threw |-> FALSE,
                            saved |-> FALSE, returned |-> Null]
       ELSE IF ~needsProvisioning(userDoc)
       THEN /\ calls' = [calls EXCEPT ![c] = IdleCall]
            /\ answered' = [op |-> "ensure", given |-> userDoc, threw |-> FALSE,
                            saved |-> FALSE, returned |-> userDoc]
       ELSE \E out \in {provisionResourcesForUser(userDoc._id, userDoc.username)} :
              IF out.threw
              THEN /\ calls' = [calls EXCEPT ![c] = IdleCall]
                   /\ answered' = [op |-> "ensure", given |-> userDoc, threw |-> TRUE,
                                   saved |-> FALSE, error |-> out.error]
              ELSE /\ calls' = [calls EXCEPT ![c] =
                        [op |-> "ensure", pc |-> "saving", given |-> userDoc,
                         userDoc |-> SetResources(userDoc, out.resources),
                         modified |-> ModifiedPaths(userDoc, out.resources)]]
                   /\ UNCHANGED answered
  /\ UNCHANGED <<env, schema, now, ticks, pid, users, nextId>>

\* the stored document after save() has written the modified paths
SavedDoc(stored, userDoc, modified) ==
  [f \in DOMAIN stored |-> IF f \in modified THEN userDoc[f] ELSE stored[f]]

\* await userDoc.save(), then return userDoc
EnsureSave(c) ==
  /\ calls[c].op = "ensure" /\ calls[c].pc = "saving"
  /\ \E userDoc \in {calls[c].userDoc} :
       /\ users' = [users EXCEPT ![userDoc._id] =
                      SavedDoc(users[userDoc._id], userDoc, calls[c].modified)]
       /\ answered' = [op |-> "ensure", given |-> calls[c].given, threw |-> FALSE,
                       saved |-> TRUE, returned |-> userDoc]
  /\ calls' = [calls EXCEPT ![c] = IdleCall]
  /\ UNCHANGED <<env, schema, now, ticks, pid, nextId>>

\* the usernames a profile update asks for
UpdateUsernames == {"carol", "Bob_1", "al"}

\* PUT /api/user/me with a username, as API.md documents it (the controller
\* is not among the source files): a username that breaks the validation
\* rules or belongs to another account is answered 400 and nothing is
\* written; otherwise the stored username is replaced and every other field
\* of the account is left as it was
updateMe(id, username) ==
  /\ Quiet
  /\ id \in DOMAIN users
  /\ users[id].username # username
  /\ \E ok \in {/\ Len(username) >= MinUsernameLength
                  /\ Len(username) <= MaxUsernameLength
                  /\ MatchesUsername(username)
                  /\ IsNull(FindOneByUsername(username))} :
       /\ users' = IF ok THEN [users EXCEPT ![id].username = username] ELSE users
       /\ answered' = [op |-> "update", id |-> id, username |-> username,
                       before |-> users[id],
                       res |-> Response(IF ok THEN 200 ELSE 400, [username |-> username])]
  /\ UNCHANGED <<env, schema, now, ticks, pid, nextId, calls>>

\* the server process is restarted: a new process, the same configuration
Restart(p) ==
  /\ Quiet
  /\ p # pid
  /\ pid' = p
  /\ UNCHANGED <<env, schema, now, ticks, users, nextId, calls, answered>>

-----------------------------------------------------------------------------
(* botJob.js: the call of the downstream bot service *)

\* JavaScript values of a JSON body
Num(n) == [t |-> "number", v |-> n]
Str(s) == [t |-> "string", v |-> s]
Arr(a) == [t |-> "array", v |-> a]
Obj(o) == [t |-> "object", v |-> o]
Bool(b) == [t |-> "boolean", v |-> b]
JsNull == [t |-> "null"]

\* the value is truthy: not 0, '', false or null
Truthy(x) ==
  CASE x.t = "number" -> x.v # 0
    [] x.t = "string" -> x.v # ""
    [] x.t = "boolean" -> x.v
    [] x.t = "null" -> FALSE
    [] OTHER -> TRUE

\* response.data: a parsed JSON object, or no body at all
NoBody == [present |-> FALSE, fields |-> [f \in {} |-> JsNull]]
Body(fields) == [present |-> TRUE, fields |-> fields]

\* response.data?.detail as the template literal prints it, '' when falsy
DetailOf(data) ==
  IF data.present /\ "detail" \in DOMAIN data.fields /\ Truthy(data.fields.detail)
  THEN data.fields.detail.v
  ELSE ""

DigitValue == [ch \in DigitSet |-> IndexOf(DigitChars, ch, 1) - 1]

RECURSIVE ParseDigits(_, _, _)
\* the value of the longest prefix of digits of s, acc so far; seen: a digit was read
ParseDigits(s, acc, seen) ==
  IF s # "" /\ CharAt(s, 1) \in DigitSet
  THEN ParseDigits(SubSeq(s, 2, Len(s)), acc * 10 + DigitValue[CharAt(s, 1)], TRUE)
  ELSE [nan |-> ~seen, v |-> acc]

\* parseInt(s): leading blanks skipped, an optional sign, then digits; NaN otherwise
ParseInt(s) ==
  LET t == TrimStart(s) IN
    IF t # "" /\ CharAt(t, 1) = "-"
    THEN LET r == ParseDigits(SubSeq(t, 2, Len(t)), 0, FALSE) IN [nan |-> r.nan, v |-> 0 - r.v]
    ELSE IF t # "" /\ CharAt(t, 1) = "+"
    THEN ParseDigits(SubSeq(t, 2, Len(t)), 0, FALSE)
    ELSE ParseDigits(t, 0, FALSE)

DefaultBotTimeout == 30000

\* parseInt(process.env.BOT_REQUEST_TIMEOUT) || 30000
BotTimeout(value) ==
  LET n == ParseInt(value) IN
    IF n.nan \/ n.v = 0 THEN DefaultBotTimeout ELSE n.v

\* `user_${userId}_${Date.now()}`, the clock in milliseconds
SessionId(userId) == "user_" \o userId \o "_" \o ToString(now * 1000)

\* String.prototype.includes
Includes(s, sub) ==
  \E i \in 1 .. (Len(s) - Len(sub) + 1) : SubSeq(s, i, i + Len(sub) - 1) = sub

\* an Error made with new Error(message): no code, no response, no request
PlainError(message) ==
  [code |-> "", hasResponse |-> FALSE, status |-> 0, statusText |-> "",
   data |-> NoBody, hasRequest |-> FALSE, message |-> message]

\* an error axios rejects with
AxiosError(code, message, hasRequest) ==
  [code |-> code, hasResponse |-> FALSE, status |-> 0, statusText |-> "",
   data |-> NoBody, hasRequest |-> hasRequest, message |-> message]

\* the rejection for a status that validateStatus refuses (500 and above)
BadResponse(status, statusText, data) ==
  [code |-> "ERR_BAD_RESPONSE", hasResponse |-> TRUE, status |-> status,
   statusText |-> statusText, data |-> data, hasRequest |-> TRUE,
   message |-> "Request failed with status code " \o ToString(status)]

\* validateStatus: (status) => status < 500
validateStatus(status) == status < 500

OptionalFields == {"sources", "confidence", "metadata"}

\* the fields spread into the result: ...(data.f && { f: data.f })
SpreadFields(data) ==
  {f \in OptionalFields : f \in DOMAIN data.fields /\ Truthy(data.fields[f])}

\* the object runBotForUser returns for a 200 response with an answer
BotResult(data, sessionId) ==
  [f \in {"answer", "session_id"} \cup SpreadFields(data) |->
     IF f = "session_id" THEN Str(sessionId) ELSE data.fields[f]]

\* a try block without the check of the response structure: a missing
\* answer is passed on as an empty one
AfterResponse_NoStructureCheck(status, data, sessionId) ==
  IF status # 200
  THEN [threw |-> TRUE,
        err |-> PlainError("Bot API error (" \o ToString(status) \o "): "
                           \o OrElse(DetailOf(data), "Unknown error"))]
  ELSE [threw |-> FALSE,
        result |-> [f \in {"answer", "session_id"} \cup SpreadFields(data) |->
                      IF f = "session_id" THEN Str(sessionId)
                      ELSE IF f \in DOMAIN data.fields THEN data.fields[f]
                      ELSE Str("")]]

\* the try block once axios.post has resolved with a response
AfterResponse(status, data, sessionId) ==
  IF status # 200
  THEN [threw |-> TRUE,
        err |-> PlainError("Bot API error (" \o ToString(status) \o "): "
                           \o OrElse(DetailOf(data), "Unknown error"))]
  ELSE IF ~data.present \/ "answer" \notin DOMAIN data.fields
  THEN [threw |-> TRUE, err |-> PlainError("Invalid response format from bot service")]
  ELSE [threw |-> FALSE, result |-> BotResult(data, sessionId)]

\* the catch block: the message of the error it throws in place of err
CatchMessage(err, botApiUrl, timeout) ==
  IF err.code = "ECONNREFUSED"
  THEN "Cannot connect to FastAPI bot at " \o botApiUrl \o " - service may not be running"
  ELSE IF err.code = "ETIMEDOUT" \/ err.code = "ECONNABORTED"
  THEN "Bot request timeout after " \o ToString(timeout) \o "ms - query may be too complex"
  ELSE IF err.code = "ENOTFOUND"
  THEN "Cannot resolve bot service hostname: " \o botApiUrl
  ELSE IF err.hasResponse
  THEN "Bot API error (" \o ToString(err.status) \o "): "
         \o OrElse(OrElse(DetailOf(err.data), err.statusText), "Unknown error")
  ELSE IF err.hasRequest
  THEN "No response from bot API - connection or timeout issue"
  ELSE "Bot job failed: " \o err.message

\* a catch block that posts again after a timeout
CatchBlock_RetryOnTimeout(err, botApiUrl, timeout) ==
  [retry |-> err.code \in {"ETIMEDOUT", "ECONNABORTED"},
   message |-> CatchMessage(err, botApiUrl, timeout)]

\* what the catch block does with an error: it throws, it never posts again
CatchBlock(err, botApiUrl, timeout) ==
  [retry |-> FALSE, message |-> CatchMessage(err, botApiUrl, timeout)]

NotConfigured == "FASTAPI_BOT_URL not configured - cannot connect to bot service"

\* runBotForUser from the settling of axios.post on: the result it returns
\* or the error it throws
JobOutcome(outcome, botApiUrl, timeout, sessionId) ==
  LET tried ==
        IF outcome.kind = "http"
        THEN IF validateStatus(outcome.status)
             THEN AfterResponse(outcome.status, outcome.data, sessionId)
             ELSE [threw |-> TRUE,
                   err |-> BadResponse(outcome.status, outcome.statusText, outcome.data)]
        ELSE [threw |-> TRUE, err |-> outcome.err]
  IN IF tried.threw
     THEN [threw |-> TRUE] @@ CatchBlock(tried.err, botApiUrl, timeout)
     ELSE tried

-----------------------------------------------------------------------------
(* botController.js: POST /api/bot/run *)

\* the status chosen by looking for 'cannot connect' in lower case
ErrorStatus_LowerCaseNeedle(message) ==
  IF Includes(message, "cannot connect") THEN 503
  ELSE IF Includes(message, "timeout") THEN 504
  ELSE 500

\* the status runBot answers an error with
ErrorStatus(message) ==
  IF Includes(message, "Cannot connect") THEN 503
  ELSE IF Includes(message, "timeout") THEN 504
  ELSE 500

\* the error text runBot answers with
ErrorMessage(message) ==
  IF Includes(message, "Cannot connect")
  THEN "Bot service is currently unavailable. Please try again later."
  ELSE IF Includes(message, "timeout")
  THEN "Bot request timed out. Please try again."
  ELSE OrElse(message, "Failed to run bot")

\* the JSON runBot sends for an error; an undefined field is not serialised
ErrorBody(message, nodeEnv) ==
  IF nodeEnv = "development"
  THEN [error |-> Str(ErrorMessage(message)), details |-> Str(message)]
  ELSE [error |-> Str(ErrorMessage(message))]

\* the response of runBot for what runBotForUser returned or threw
RunBotAnswer(job, userId) ==
  IF job.threw
  THEN Response(ErrorStatus(job.message), ErrorBody(job.message, env.NODE_ENV))
  ELSE Response(200,
         [f \in DOMAIN job.result \cup {"user_id"} |->
            IF f = "user_id" THEN Str(userId) ELSE job.result[f]])

\* req.user as the auth middleware set it
BotIdentities == {[userId |-> ObjectId(1), username |-> "alice"]}

\* req.body of runBot, as validateBotRun lets it through
RunBodies == {[input |-> " what is rag? "], [input |-> "hi"]}

\* what the bot service or the network does with a posted request
HttpOutcome(status, statusText, data) ==
  [kind |-> "http", status |-> status, statusText |-> statusText, data |-> data]

NetworkOutcome(err) == [kind |-> "network", err |-> err]

BotAnswers ==
  {Body([answer |-> Str("Retrieval augmented generation.")]),
   Body([answer |-> Str("42"), sources |-> Arr(<<"a.pdf">>), confidence |-> Num(1),
         metadata |-> Obj([model |-> "m1"])]),
   Body([answer |-> Str("42"), confidence |-> Num(0)]),
   Body([answer |-> Str("42"), sources |-> Arr(<< >>), metadata |-> JsNull]),
   Body([answer |-> Str("")]),
   Body([sources |-> Arr(<<"a.pdf">>)]),
   Body([detail |-> Str("index is empty")]),
   NoBody}

BotErrorBodies ==
  {Body([detail |-> Str("Session not found")]),
   Body([detail |-> Str("upstream timeout in retriever")]),
   NoBody}

BotOutcomes ==
  {HttpOutcome(200, "OK", data) : data \in BotAnswers}
  \cup {HttpOutcome(404, "Not Found", data) : data \in BotErrorBodies}
  \cup {HttpOutcome(422, "Unprocessable Entity", Body([detail |-> Str("query too long")]))}
  \cup {HttpOutcome(500, "Internal Server Error", data) : data \in BotErrorBodies}
  \cup {HttpOutcome(503, "", NoBody)}
  \cup {NetworkOutcome(AxiosError("ECONNREFUSED", "connect ECONNREFUSED 10.0.0.5:8000", TRUE)),
        NetworkOutcome(AxiosError("ETIMEDOUT", "connect ETIMEDOUT 10.0.0.5:8000", TRUE)),
        NetworkOutcome(AxiosError("ECONNABORTED", "timeout of 5000ms exceeded", TRUE)),
        NetworkOutcome(AxiosError("ENOTFOUND", "getaddrinfo ENOTFOUND bot", TRUE)),
        NetworkOutcome(AxiosError("ECONNRESET", "socket hang up", TRUE)),
        NetworkOutcome(AxiosError("ERR_INVALID_URL", "Invalid URL", FALSE))}

\* runBot up to the await of axios.post, or to its answer when
\* runBotForUser throws before posting
runBot(c, user, body) ==
  /\ FreeSlot(c)
  /\ IF env.FASTAPI_BOT_URL = ""
     THEN /\ answered' =
               [op |-> "bot", user |-> user, input |-> body.input, posts |-> 0,
                outcome |-> [kind |-> "none"],
                job |-> [threw |-> TRUE, retry |-> FALSE, message |-> NotConfigured],
                res |-> RunBotAnswer([threw |-> TRUE, message |-> NotConfigured],
                                     user.userId)]
          /\ UNCHANGED calls
     ELSE /\ calls' = [calls EXCEPT ![c] =
               [op |-> "bot", pc |-> "posted", user |-> user, input |-> body.input,
                posts |-> 1,
                request |-> [url |-> env.FASTAPI_BOT_URL \o "/chat",
                             query |-> Trim(body.input),
                             session_id |-> SessionId(user.userId),
                             timeout |-> BotTimeout(env.BOT_REQUEST_TIMEOUT)]]]
          /\ UNCHANGED answered
  /\ UNCHANGED <<env, schema, now, ticks, pid, users, nextId>>

\* axios.post settles; runBotForUser returns or throws; runBot answers
axiosSettles(c, outcome) ==
  /\ calls[c].op = "bot" /\ calls[c].pc = "posted"
  /\ \E job \in {JobOutcome(outcome, env.FASTAPI_BOT_URL, calls[c].request.timeout,
                            calls[c].request.session_id)} :
       IF job.threw /\ job.retry
       THEN /\ calls' = [calls EXCEPT ![c].posts = @ + 1]
            /\ UNCHANGED answered
       ELSE /\ calls' = [calls EXCEPT ![c] = IdleCall]
            /\ answered' =
                 [op |-> "bot", user |-> calls[c].user, input |-> calls[c].input,
                  posts |-> calls[c].posts, request |-> calls[c].request,
                  outcome |-> outcome, job |-> job,
                  res |-> RunBotAnswer(job, calls[c].user.userId)]
  /\ UNCHANGED <<env, schema, now, ticks, pid, users, nextId>>

\* a posted request whose timer axios has armed: config.timeout is a
\* positive number of milliseconds
TimerArmed(c) ==
  /\ calls[c].op = "bot" /\ calls[c].pc = "posted"
  /\ calls[c].request.timeout > 0

\* the milliseconds the timer of a posted request has counted
Elapsed(c) == IF "elapsed" \in DOMAIN calls[c] THEN calls[c].elapsed ELSE 0

\* the steps in which the timers are seen to advance
TimerSteps == {10000, DefaultBotTimeout}

\* time passes for a posted request that has had no response yet
timerAdvances(c, d) ==
  /\ TimerArmed(c)
  /\ Elapsed(c) < calls[c].request.timeout
  /\ \E e \in {IF Elapsed(c) + d > calls[c].request.timeout
                THEN calls[c].request.timeout ELSE Elapsed(c) + d} :
       calls' = [calls EXCEPT ![c] =
         [f \in DOMAIN calls[c] \cup {"elapsed"} |->
            IF f = "elapsed" THEN e ELSE calls[c][f]]]
  /\ UNCHANGED <<env, schema, now, ticks, pid, users, nextId, answered>>

\* the rejection of axios when config.timeout has passed without a response
TimeoutExceeded(timeout) ==
  NetworkOutcome(AxiosError("ECONNABORTED",
                            "timeout of " \o ToString(timeout) \o "ms exceeded", TRUE))

\* the timer of a posted request fires: axios aborts the request and rejects
axiosTimesOut(c) ==
  /\ TimerArmed(c)
  /\ Elapsed(c) = calls[c].request.timeout
  /\ axiosSettles(c, TimeoutExceeded(calls[c].request.timeout))

\* a timeout that is not positive arms no timer: the request is refused when
\* it is made, or stays open until the bot service answers
OutOfRange ==
  NetworkOutcome(AxiosError("ERR_OUT_OF_RANGE",
                            "The value of \"msecs\" is out of range.", FALSE))

\* what a bot service that answers in time, or its host, may do
TimelyOutcomes ==
  {HttpOutcome(200, "OK", Body([answer |-> Str("42")])),
   NetworkOutcome(AxiosError("ECONNREFUSED", "connect ECONNREFUSED 10.0.0.5:8000", TRUE))}

\* the settings of BOT_REQUEST_TIMEOUT
TimerEnvs ==
  {[EnvDefaults EXCEPT !.FASTAPI_BOT_URL = "http://bot:8000", !.BOT_REQUEST_TIMEOUT = t] :
     t \in {"", "1500ms", "0", "soon", "-5"}}

BotEnvs ==
  {[EnvDefaults EXCEPT !.FASTAPI_BOT_URL = u, !.BOT_REQUEST_TIMEOUT = t, !.NODE_ENV = n] :
     u \in {"", "http://bot:8000"}, t \in {"", "1500ms"},
     n \in {"production", "development", ""}}

-----------------------------------------------------------------------------
Init ==
  /\ env \in Envs
  /\ schema \in Schemas
  /\ now = 0
  /\ ticks = 0
  /\ pid = "pid-4711"
  /\ users = [id \in {} |-> Null]
  /\ nextId = 0
  /\ calls = [c \in Calls |-> IdleCall]
  /\ answered = NoAnswer

NextRegistration ==
  \E c \in Calls :
    \/ \E body \in RegisterBodies : RegFindEmail(c, body)
    \/ RegFindUsername(c)
    \/ RegSave(c)

\* the handlers of the account and token subsystem read only JWT_SECRET and
\* none of the locator paths
InitDefaults == Init /\ env = EnvDefaults /\ schema = UserSchema

SpecRegistration == InitDefaults /\ [][NextRegistration]_vars

\* one request at a time: registration, login and protected requests
NextSession ==
  \/ \E c \in Calls :
       \/ Quiet /\ \E body \in RegisterBodies : RegFindEmail(c, body)
       \/ RegFindUsername(c)
       \/ RegSave(c)
  \/ Quiet /\ \E body \in LoginBodies : loginUser(body)
  \/ Quiet /\ \E route \in ProtectedRoutes, h \in AuthHeaders :
                ProtectedRequest(route, h[1], h[2])
  \/ \E d \in TickSteps : Tick(d)

SpecSession == InitDefaults /\ [][NextSession]_vars

\* sessions in which clients also send tokens signed under other algorithms
NextAlgorithms ==
  \/ \E c \in Calls :
       \/ Quiet /\ \E body \in RegisterBodies : RegFindEmail(c, body)
       \/ RegFindUsername(c)
       \/ RegSave(c)
  \/ Quiet /\ \E body \in LoginBodies : loginUser(body)
  \/ Quiet /\ \E route \in ProtectedRoutes, h \in AuthHeaders \cup ResignedHeaders :
                ProtectedRequest(route, h[1], h[2])

SpecAlgorithms == InitDefaults /\ [][NextAlgorithms]_vars

\* accounts are registered and logged in one request at a time; the
\* provisioning requests run concurrently
NextProvisioning ==
  \/ \E c \in Calls :
       \/ Quiet /\ \E body \in RegisterBodies : RegFindEmail(c, body)
       \/ RegFindUsername(c)
       \/ RegSave(c)
       \/ \E id \in EnsureIds : EnsureLoad(c, id)
       \/ EnsureCheck(c)
       \/ EnsureSave(c)
  \/ Quiet /\ \E body \in LoginBodies : loginUser(body)

SpecProvisioning == Init /\ [][NextProvisioning]_vars

\* the exported provisioning function, called over time and across restarts
NextProvisionCalls ==
  \/ \E userId \in ProvisionUserIds, username \in ProvisionUsernames :
       ProvisionCall(userId, username)
  \/ \E d \in TickSteps : Tick(d)
  \/ \E p \in Pids : Restart(p)

SpecProvisionCalls == Init /\ [][NextProvisionCalls]_vars

\* provisioning of the accounts of several users
NextAccounts ==
  \/ \E userId \in AccountIds, username \in AccountUsernames :
       ProvisionCall(userId, username)
  \/ \E d \in TickSteps : Tick(d)
  \/ \E p \in Pids : Restart(p)

SpecAccounts == Init /\ [][NextAccounts]_vars

\* registration, provisioning and profile updates, one request at a time
NextRename ==
  \/ \E c \in Calls :
       \/ Quiet /\ \E body \in RegisterBodies : RegFindEmail(c, body)
       \/ RegFindUsername(c)
       \/ RegSave(c)
       \/ Quiet /\ \E id \in EnsureIds : EnsureLoad(c, id)
       \/ EnsureCheck(c)
       \/ EnsureSave(c)
  \/ \E id \in DOMAIN users, username \in UpdateUsernames : updateMe(id, username)

SpecRename == Init /\ [][NextRename]_vars

\* provisioning asked for with and without its arguments: direct calls, and
\* ensureUserResources on documents loaded whole or without the username
NextPrecondition ==
  \/ \E c \in Calls :
       \/ Quiet /\ \E body \in RegisterBodies : RegFindEmail(c, body)
       \/ RegFindUsername(c)
       \/ RegSave(c)
       \/ Quiet /\ \E id \in EnsureIds : EnsureLoad(c, id)
       \/ Quiet /\ \E id \in DOMAIN users : EnsureLoadPartial(c, id)
       \/ EnsureCheck(c)
       \/ EnsureSave(c)
  \/ Quiet /\ \E userId \in ProvisionUserIds, username \in ProvisionUsernames :
                ProvisionCall(userId, username)

SpecPrecondition == Init /\ [][NextPrecondition]_vars

\* sessions during which the accounts change: registration, login, profile
\* updates and protected requests, one request at a time, as time passes
NextAccountChange ==
  \/ \E c \in Calls :
       \/ Quiet /\ \E body \in RegisterBodies : RegFindEmail(c, body)
       \/ RegFindUsername(c)
       \/ RegSave(c)
  \/ Quiet /\ \E body \in LoginBodies : loginUser(body)
  \/ Quiet /\ \E route \in ProtectedRoutes, h \in AuthHeaders :
                ProtectedRequest(route, h[1], h[2])
  \/ \E id \in DOMAIN users, username \in UpdateUsernames : updateMe(id, username)
  \/ Tick(OneDay - 1)

SpecAccountChange == InitDefaults /\ [][NextAccountChange]_vars

\* a deployment with the bot service configured or not, in each NODE_ENV
InitBot ==
  /\ env \in BotEnvs
  /\ schema = UserSchema
  /\ now = 0
  /\ ticks = 0
  /\ pid = "pid-4711"
  /\ users = [id \in {} |-> Null]
  /\ nextId = 0
  /\ calls = [c \in Calls |-> IdleCall]
  /\ answered = NoAnswer

\* bot queries of authenticated users, served concurrently
NextBot ==
  \/ \E c \in Calls :
       \/ \E user \in BotIdentities, body \in RunBodies : runBot(c, user, body)
       \/ \E outcome \in BotOutcomes : axiosSettles(c, outcome)

SpecBot == InitBot /\ [][NextBot]_vars

\* the longest username toSlug is called with
MaxSlugLen == 4

\* the characters of those usernames: a letter of each case, a digit, a
\* hyphen, a space and another character outside [a-z0-9]
SlugAlphabet == {"a", "B", "1", "-", " ", "_"}

RECURSIVE StringsUpTo(_)
StringsUpTo(n) ==
  IF n = 0 THEN {""}
  ELSE StringsUpTo(n - 1)
         \cup {str \o ch : str \in StringsUpTo(n - 1), ch \in SlugAlphabet}

\* the empty string stands for an absent username as well: both are falsy
SlugInputs == StringsUpTo(MaxSlugLen)

\* a call of toSlug about to be made
InitSlug ==
  /\ env = EnvDefaults
  /\ schema = UserSchema
  /\ now = 0
  /\ ticks = 0
  /\ pid = "pid-4711"
  /\ users = [id \in {} |-> Null]
  /\ nextId = 0
  /\ \E value \in SlugInputs :
       calls = [c \in Calls |-> IF c = 1 THEN [op |-> "toSlug", pc |-> "called", value |-> value]
                                ELSE IdleCall]
  /\ answered = NoAnswer

\* toSlug(value) returns
toSlugReturns(c) ==
  /\ calls[c].op = "toSlug" /\ calls[c].pc = "called"
  /\ answered' = [op |-> "toSlug", value |-> calls[c].value, slug |-> toSlug(calls[c].value)]
  /\ calls' = [calls EXCEPT ![c] = IdleCall]
  /\ UNCHANGED <<env, schema, now, ticks, pid, users, nextId>>

\* toSlug is called with a slug it returned
toSlugAgain(c) ==
  /\ calls[c].pc = "idle"
  /\ answered.op = "toSlug"
  /\ answered.value # answered.slug
  /\ calls' = [calls EXCEPT ![c] = [op |-> "toSlug", pc |-> "called", value |-> answered.slug]]
  /\ UNCHANGED <<env, schema, now, ticks, pid, users, nextId, answered>>

NextSlug ==
  \E c \in Calls :
    \/ toSlugReturns(c)
    \/ FreeSlot(c) /\ toSlugAgain(c)

SpecSlug == InitSlug /\ [][NextSlug]_vars

InitBotTimer ==
  /\ env \in TimerEnvs
  /\ schema = UserSchema
  /\ now = 0
  /\ ticks = 0
  /\ pid = "pid-4711"
  /\ users = [id \in {} |-> Null]
  /\ nextId = 0
  /\ calls = [c \in Calls |-> IdleCall]
  /\ answered = NoAnswer

\* bot queries whose posts are answered in time, or not at all
NextBotTimer ==
  \E c \in Calls :
    \/ \E user \in BotIdentities, body \in RunBodies : runBot(c, user, body)
    \/ \E outcome \in TimelyOutcomes : axiosSettles(c, outcome)
    \/ ~TimerArmed(c) /\ axiosSettles(c, OutOfRange)
    \/ \E d \in TimerSteps : timerAdvances(c, d)
    \/ axiosTimesOut(c)

\* time passes and a timer that has run out fires; nothing obliges the bot
\* service to answer
SpecBotTimer ==
  /\ InitBotTimer /\ [][NextBotTimer]_vars
  /\ \A c \in Calls :
       /\ WF_vars(\E d \in TimerSteps : timerAdvances(c, d))
       /\ WF_vars(axiosTimesOut(c))

Next ==
  \/ \E c \in Calls :
       \/ \E user \in BotIdentities, body \in RunBodies : runBot(c, user, body)
       \/ \E outcome \in BotOutcomes : axiosSettles(c, outcome)
       \/ \E body \in RegisterBodies : RegFindEmail(c, body)
       \/ RegFindUsername(c)
       \/ RegSave(c)
       \/ \E id \in EnsureIds : EnsureLoad(c, id)
       \/ \E id \in DOMAIN users : EnsureLoadPartial(c, id)
       \/ EnsureCheck(c)
       \/ EnsureSave(c)
  \/ \E body \in LoginBodies : loginUser(body)
  \/ \E route \in ProtectedRoutes, h \in AuthHeaders : ProtectedRequest(route, h[1], h[2])
  \/ \E userId \in ProvisionUserIds, username \in ProvisionUsernames :
       ProvisionCall(userId, username)
  \/ \E id \in DOMAIN users, username \in UpdateUsernames : updateMe(id, username)
  \/ \E d \in TickSteps : Tick(d)
  \/ \E p \in Pids : Restart(p)

Spec == Init /\ [][Next]_vars

-----------------------------------------------------------------------------
(* Properties *)

\* C1: a login that names no account and a login that names an account but
\* gives a wrong password get the same status, 401, and the same payload: the
\* failed login observed equals the answer of either case, for every stored
\* account and every password that does not match it.
C1_AntiEnumeration ==
  (answered.op = "login" /\ ~answered.isMatch) =>
    /\ answered.res.status = 401
    /\ answered.res = LoginAnswer(Null, answered.req.password)
    /\ \A id \in DOMAIN users : \A body \in LoginBodies :
         ~BcryptCompare(body.password, users[id].password)
           => answered.res = LoginAnswer(users[id], body.password)

\* a wrong password against a stored account has been answered
C1_Witness ==
  /\ answered.op = "login" /\ answered.found /\ ~answered.isMatch
  /\ answered.res.status = 401

\* the unique fields of a request body that an account of the store repeats
ConflictFields(body) ==
  {f \in {"email"} :
     \E id \in DOMAIN users : ToLowerCase(users[id].email) = ToLowerCase(body.email)}
  \cup
  {f \in {"username"} : \E id \in DOMAIN users : users[id].username = body.username}

ConflictMessage(field) ==
  IF field = "email" THEN "Email already in use" ELSE "Username already in use"

\* C2: with registrations served one after another, a registration whose
\* email equals a stored email up to letter case, or whose username equals a
\* stored username, is answered 400 with a payload tagged with one of the
\* repeated fields, and the step that answers it leaves the store unchanged.
C2_RegisterConflict ==
  [][\A c \in Calls :
       (/\ calls[c].op = "register"
        /\ calls'[c].pc = "idle"
        /\ ConflictFields(calls[c].req) # {})
       => /\ answered'.res.status = 400
          /\ "field" \in DOMAIN answered'.res.body
          /\ answered'.res.body.field \in ConflictFields(calls[c].req)
          /\ answered'.res.body.error = ConflictMessage(answered'.res.body.field)
          /\ users' = users]_vars

\* an email that differs from the stored one in letter case only was refused
C2_Witness ==
  /\ answered.op = "register"
  /\ answered.res.status = 400
  /\ "field" \in DOMAIN answered.res.body
  /\ answered.res.body.field = "email"
  /\ ~answered.saved
  /\ \E id \in DOMAIN users :
       /\ users[id].email # answered.req.email
       /\ users[id].email = ToLowerCase(answered.req.email)

\* C3: a registration whose save is refused by the store's unique index is
\* answered like a pre-check conflict: 400 with a field-tagged payload.
C3_RaceAnsweredAsConflict ==
  (answered.op = "register" /\ answered.err = "MongoServerError") =>
    /\ answered.res.status = 400
    /\ "field" \in DOMAIN answered.res.body
    /\ answered.res.body.field \in {"email", "username"}

\* a token loginUser minted: signed HS256 with the server's secret
Minted(t) == t.kind = "jwt" /\ t.alg = "HS256" /\ t.key = env.JWT_SECRET

BearerHeader(t) == Header(<<Word("Bearer"), t>>)

SentAsBearer ==
  /\ answered.op = "protected"
  /\ answered.sent.kind = "jwt"
  /\ answered.header = BearerHeader(answered.sent)

\* C4: a minted token sent as 'Bearer <token>' is accepted at every time
\* before its expiry and is refused with the expired-token error at every
\* time after it.
C4_TokenLifecycle ==
  (SentAsBearer /\ Minted(answered.sent)) =>
    /\ answered.at < answered.sent.payload.exp => answered.controllerRan
    /\ answered.at > answered.sent.payload.exp =>
         /\ ~answered.controllerRan
         /\ answered.res.status = 401
         /\ answered.res.body.error = "Token expired"

\* C5: on every protected route the controller has run only if the middleware
\* took from the header a token signed with the server's secret and not yet
\* expired, and then req.user is the payload of that token; a token signed
\* with another secret is answered 401 'Token is not valid' and the controller
\* has not run.
C5_TokenGate ==
  (answered.op = "protected") =>
    /\ answered.route \in ProtectedRoutes
    /\ answered.controllerRan =>
         /\ ~IsNull(TokenOf(answered.header))
         /\ TokenOf(answered.header).kind = "jwt"
         /\ TokenOf(answered.header).key = env.JWT_SECRET
         /\ answered.at < TokenOf(answered.header).payload.exp
         /\ answered.reqUser = TokenOf(answered.header).payload
    /\ (/\ ~IsNull(TokenOf(answered.header))
        /\ TokenOf(answered.header).kind = "jwt"
        /\ TokenOf(answered.header).key # env.JWT_SECRET)
       => /\ ~answered.controllerRan
          /\ answered.res = Response(401, [error |-> "Token is not valid"])

\* a controller has run behind the gate
C5_Witness ==
  /\ answered.op = "protected"
  /\ answered.controllerRan
  /\ answered.route = "POST /api/bot/run"
  /\ answered.reqUser.username = "alice"

\* C6: the middleware's answers to an expired token, to a token with a bad
\* signature and to a missing token carry three different error codes.
C6_DistinctAuthErrors ==
  (/\ SentAsBearer /\ Minted(answered.sent)
   /\ answered.at >= answered.sent.payload.exp)
  => /\ answered.res.body.error
          # auth(BearerHeader(Forged(answered.sent))).res.body.error
     /\ answered.res.body.error # auth(NoHeader).res.body.error
     /\ auth(BearerHeader(Forged(answered.sent))).res.body.error
          # auth(NoHeader).res.body.error

\* 'Bearer <token>': the scheme word, one space, a token
BearerForm(h) ==
  /\ h.present
  /\ Len(h.parts) = 2
  /\ h.parts[1] = Word("Bearer")
  /\ ~Falsy(h.parts[2])

\* C7: a request whose Authorization header is absent or is not of the form
\* 'Bearer <token>' is answered 401 and the controller has not run.
C7_BearerFormat ==
  (answered.op = "protected" /\ ~BearerForm(answered.header)) =>
    /\ ~answered.controllerRan
    /\ answered.res.status = 401

\* C8: for a user id and a username that are both present,
\* provisionResourcesForUser returns the locators it returned before, whatever
\* the clock, the process and the calls made in between.
C8_ProvisioningDeterminism ==
  (answered.op = "provision" /\ answered.userId # "" /\ answered.username # "") =>
    /\ ~answered.out.threw
    /\ DOMAIN answered.out.resources = LocatorFields
    /\ provisionResourcesForUser(answered.userId, answered.username) = answered.out

\* locators computed at another time by another process are still on record
C8_Witness ==
  /\ answered.op = "provision" /\ answered.userId # "" /\ answered.username # ""
  /\ answered.at # now
  /\ answered.by # pid
  /\ env = EnvCustom

AllLocatorsSet(doc) == \A f \in LocatorFields : f \in DOMAIN doc /\ doc[f] # ""
NoLocatorSet(doc) == \A f \in LocatorFields : f \notin DOMAIN doc \/ doc[f] = ""

ProvisionedAs(doc) ==
  SetResources(doc, provisionResourcesForUser(doc._id, doc.username).resources)

C14_UnreachableAndTimeout ==
  (answered.op = "bot" /\ answered.outcome.kind = "network") =>
    /\ answered.outcome.err.code = "ECONNREFUSED" => answered.res.status = 503
    /\ answered.outcome.err.code \in {"ETIMEDOUT", "ECONNABORTED"}
         => answered.res.status = 504

\* a refused connection has been answered
C14_Witness ==
  /\ answered.op = "bot" /\ answered.outcome.kind = "network"
  /\ answered.outcome.err.code = "ECONNREFUSED"
  /\ answered.res.status = 503

\* C15: a post the bot service answered with a 4xx or 5xx status is raised
\* as an upstream error naming that status, and runBot answers it 502.
C15_UpstreamErrorIs502 ==
  (/\ answered.op = "bot" /\ answered.outcome.kind = "http"
   /\ answered.outcome.status >= 400)
  => /\ answered.job.threw
     /\ Includes(answered.job.message,
                 "Bot API error (" \o ToString(answered.outcome.status) \o ")")
     /\ answered.res.status = 502

\* the bot service answered 200 with no body or with a body without 'answer'
AnsweredWithoutAnswer ==
  /\ answered.op = "bot" /\ answered.outcome.kind = "http"
  /\ answered.outcome.status = 200
  /\ (~answered.outcome.data.present
       \/ "answer" \notin DOMAIN answered.outcome.data.fields)

\* C16: a 200 answer of the bot service that has no body, or whose body has
\* no 'answer', makes runBotForUser throw the invalid-response error; runBot
\* answers 500 and its payload carries no answer.
C16_MalformedResponse ==
  AnsweredWithoutAnswer =>
    /\ answered.job.threw
    /\ Includes(answered.job.message, "Invalid response format from bot service")
    /\ answered.res.status = 500
    /\ "answer" \notin DOMAIN answered.res.body

\* a 200 answer with sources but no answer, and one with no body, were refused
C16_Witness ==
  /\ AnsweredWithoutAnswer
  /\ answered.outcome.data.present
  /\ "sources" \in DOMAIN answered.outcome.data.fields
  /\ answered.res.status = 500

\* the texts the bot service or the network layer supplied with a failure
DownstreamTexts(outcome) ==
  IF outcome.kind = "http"
  THEN {DetailOf(outcome.data)} \ {""}
  ELSE IF outcome.kind = "network"
  THEN {outcome.err.message}
  ELSE {}

\* C17: outside development, for every kind of downstream failure, the
\* payload runBot sends has no 'details' field and its error text contains
\* neither the detail string of the bot service nor the raw error message.
C17_NoDownstreamDetailInProduction ==
  (answered.op = "bot" /\ answered.job.threw /\ env.NODE_ENV # "development") =>
    /\ DOMAIN answered.res.body = {"error"}
    /\ \A text \in DownstreamTexts(answered.outcome) :
         ~Includes(answered.res.body.error.v, text)

\* C18: for a 200 answer of the bot service that has an 'answer',
\* runBotForUser returns that answer and exactly those of sources, confidence
\* and metadata that the answer included, each with the value it had.
C18_SuccessPassThrough ==
  (/\ answered.op = "bot" /\ answered.outcome.kind = "http"
   /\ answered.outcome.status = 200
   /\ answered.outcome.data.present
   /\ "answer" \in DOMAIN answered.outcome.data.fields)
  => /\ ~answered.job.threw
     /\ answered.job.result.answer = answered.outcome.data.fields.answer
     /\ \A f \in OptionalFields :
          /\ f \in DOMAIN answered.job.result
               <=> f \in DOMAIN answered.outcome.data.fields
          /\ f \in DOMAIN answered.outcome.data.fields
               => answered.job.result[f] = answered.outcome.data.fields[f]

\* the passwords clients register with, and what must stay in the store
Plaintexts == {body.password : body \in RegisterBodies}
Secrets == Plaintexts \cup {users[id].password : id \in DOMAIN users}

\* a flat record of strings has no password field and no secret value
SecretFree(rec) ==
  /\ "password" \notin DOMAIN rec
  /\ \A f \in DOMAIN rec \ {"iat", "exp"} : rec[f] \notin Secrets

\* a payload of registerUser or loginUser gives no secret away
PayloadSecretFree(body) ==
  /\ "password" \notin DOMAIN body
  /\ "user" \in DOMAIN body => SecretFree(body.user)
  /\ "token" \in DOMAIN body => SecretFree(body.token.payload)
  /\ "error" \in DOMAIN body => \A secret \in Secrets : ~Includes(body.error, secret)

\* C19: every stored password is the bcrypt hash of the registered password
\* and neither equals nor contains it; no answer of registerUser or loginUser
\* and no profile read has a password field or carries a password or a hash.
C19_PasswordConfidentiality ==
  /\ \A id \in DOMAIN users :
       /\ users[id].password \notin Plaintexts
       /\ \E pw \in Plaintexts, salt \in Salts :
            /\ users[id].password = BcryptHash(pw, salt)
            /\ ~Includes(users[id].password, pw)
  /\ answered.op \in {"register", "login"} => PayloadSecretFree(answered.res.body)
  /\ (/\ answered.op = "protected" /\ answered.controllerRan
      /\ answered.route = "GET /api/user/me")
     => SecretFree(answered.res.body)

\* a registered and logged-in user has read the profile
C19_Witness ==
  /\ answered.op = "protected" /\ answered.controllerRan
  /\ answered.route = "GET /api/user/me"
  /\ answered.res.status = 200
  /\ answered.res.body.username = "alice"
  /\ users[answered.reqUser.userId].password = BcryptHash("secret1", "N9qo8uLOickgx2ZMRZoMye")

\* the stored account id is the one registerUser made of body
RegisteredAs(id, body) ==
  /\ users[id].name = Trim(body.name)
  /\ users[id].email = Trim(ToLowerCase(body.email))
  /\ users[id].username = Trim(body.username)

\* the identity context is that of the stored account id
IdentityOf(reqUser, id) ==
  /\ reqUser.userId = id
  /\ reqUser.username = users[id].username
  /\ reqUser.email = users[id].email

\* C20: once registerUser has answered 201 for a body, loginUser with that
\* username and password answers 200 with a token and the summary the
\* registration returned; a login with the credentials of a registered
\* account is answered so; and the middleware accepts the token sent as
\* Bearer before its expiry, with req.user naming the id, username and email
\* of the registered account.
C20_RegisterLoginVerify ==
  /\ (answered.op = "register" /\ answered.res.status = 201) =>
       \E ans \in {LoginAnswer(FindOneByUsername(Trim(answered.req.username)),
                               answered.req.password)} :
         /\ ans.status = 200
         /\ ans.body.user = answered.res.body.user
         /\ \E gate \in {auth(BearerHeader(ans.body.token))} :
              gate.next /\ IdentityOf(gate.reqUser, answered.res.body.user.id)
  /\ answered.op = "login" =>
       \A id \in DOMAIN users, body \in RegisterBodies :
         (/\ RegisteredAs(id, body)
          /\ Trim(answered.req.username) = users[id].username
          /\ answered.req.password = body.password)
         => /\ answered.res.status = 200
            /\ answered.res.body.user =
                 [id |-> id, name |-> users[id].name,
                  username |-> users[id].username, email |-> users[id].email]
            /\ Minted(answered.res.body.token)
            /\ IdentityOf(answered.res.body.token.payload, id)
  /\ (SentAsBearer /\ Minted(answered.sent)
      /\ answered.at < answered.sent.payload.exp)
     => /\ answered.controllerRan
        /\ answered.reqUser.userId \in DOMAIN users
        /\ IdentityOf(answered.reqUser, answered.reqUser.userId)

\* the token of a login made with the registered credentials opened the
\* profile of the registered account
C20_Witness ==
  /\ SentAsBearer /\ Minted(answered.sent)
  /\ answered.controllerRan
  /\ answered.route = "GET /api/user/me"
  /\ answered.res.status = 200
  /\ answered.res.body._id = answered.reqUser.userId
  /\ \E body \in RegisterBodies : RegisteredAs(answered.reqUser.userId, body)

\* C21: in every reachable state, whatever the interleaving of the
\* pre-checks and saves of concurrent registrations, no two stored accounts
\* have the same username and no two have the same lowercased email.
C21_StoreUniqueness ==
  \A id1, id2 \in DOMAIN users :
    id1 # id2 =>
      /\ users[id1].username # users[id2].username
      /\ ToLowerCase(users[id1].email) # ToLowerCase(users[id2].email)

\* a registration passed both pre-checks while another one was in flight and
\* its insert was refused by the store
C21_Witness ==
  /\ answered.op = "register"
  /\ answered.err = "MongoServerError"
  /\ \E id \in DOMAIN users :
       \/ users[id].username = Trim(answered.req.username)
       \/ users[id].email = Trim(ToLowerCase(answered.req.email))

\* the token loginUser mints in this state for a stored account
TokenFor(user) ==
  JwtSign([userId |-> user._id, username |-> user.username, email |-> user.email],
          env.JWT_SECRET, OneDay)

\* Authorization headers to probe the middleware with: those a client sends,
\* and one with the token of every account that is or could be stored
ProbeHeaders ==
  {h[1] : h \in AuthHeaders}
  \cup {BearerHeader(TokenFor([_id |-> ObjectId(n), username |-> body.username,
                               email |-> body.email])) :
          n \in 1 .. MaxUsers, body \in RegisterBodies}

\* C22: the auth middleware neither reads nor writes the account store: a
\* step that changes the store (an account is added or renamed) leaves the
\* verdict of the middleware on every header as it was, and a protected
\* request leaves the store as it was; so a token minted for a stored account
\* is still accepted, with the claims it was minted with, after any step
\* that changes the store or moves the clock to a time before its expiry.
C22_VerifierPurity ==
  [][/\ users' # users =>
          \A h \in ProbeHeaders : (auth(h))' = auth(h)
     /\ (answered'.op = "protected" /\ answered' # answered) => users' = users
     /\ (users' # users \/ now' # now) =>
          \A id \in DOMAIN users :
            \E t \in {TokenFor(users[id])} :
              now' < t.payload.exp =>
                \E gate \in {(auth(BearerHeader(t)))'} :
                  gate.next /\ gate.reqUser = t.payload]_vars

\* the username of an account has just been changed and the token minted
\* for the account as it was before is accepted all the same
C22_Witness ==
  /\ answered.op = "update" /\ answered.res.status = 200
  /\ users[answered.id].username # answered.before.username
  /\ auth(BearerHeader(TokenFor(answered.before))).next
  /\ auth(BearerHeader(TokenFor(answered.before))).reqUser.username
       = answered.before.username

\* C23: tokens are signed and verified with one fixed algorithm: every token
\* loginUser returns is signed with HS256, and a request whose token names
\* any other algorithm in its header is refused with 401 and reaches no
\* controller, however well-formed the rest of the token is.
C23_PinnedAlgorithm ==
  /\ (answered.op = "login" /\ answered.res.status = 200)
       => answered.res.body.token.alg = "HS256"
  /\ (answered.op = "protected" /\ answered.sent.kind = "jwt"
      /\ TokenOf(answered.header) = answered.sent
      /\ answered.sent.alg # "HS256")
       => ~answered.controllerRan /\ answered.res.status = 401

\* the seconds in the units of a time span such as '2h' or '1d'
SpanUnits == [s |-> 1, m |-> 60, h |-> 3600, d |-> OneDay]

\* the lifetime the deployment asks for: JWT_EXPIRATION read as a time
\* span, one day when it is not set
ConfiguredLifetime ==
  IF env.JWT_EXPIRATION = "" THEN OneDay
  ELSE ParseInt(env.JWT_EXPIRATION).v
         * SpanUnits[CharAt(env.JWT_EXPIRATION, Len(env.JWT_EXPIRATION))]

\* C24: the lifetime of a token minted by loginUser, its expiry minus its
\* time of issue, is the configured JWT_EXPIRATION when one is configured
\* and one day when none is.
C24_ConfigurableExpiry ==
  (answered.op = "login" /\ answered.res.status = 200) =>
    answered.res.body.token.payload.exp - answered.res.body.token.payload.iat
      = ConfiguredLifetime

\* C25: a provisioning call without the account id or without the username
\* throws the precondition error, which carries status 500, and returns no
\* locators; ensureUserResources on a document that needs provisioning and
\* has no username throws that error, saves nothing and leaves the stored
\* accounts as they were.
C25_ProvisioningPrecondition ==
  [][/\ (answered' # answered /\ answered'.op = "provision"
         /\ (answered'.userId = "" \/ answered'.username = ""))
        => /\ answered'.out.threw
           /\ answered'.out.error.statusCode = 500
           /\ "resources" \notin DOMAIN answered'.out
           /\ users' = users
     /\ (answered' # answered /\ answered'.op = "ensure"
         /\ ~IsNull(answered'.given)
         /\ needsProvisioning(answered'.given)
         /\ (answered'.given._id = "" \/ answered'.given.username = ""))
        => /\ answered'.threw
           /\ ~answered'.saved
           /\ answered'.error.statusCode = 500
           /\ "returned" \notin DOMAIN answered'
           /\ users' = users
           /\ \A c \in Calls : calls'[c].op # "ensure" \/ calls[c] = calls'[c]]_vars

\* ensureUserResources was handed an unprovisioned account without its
\* username and threw; the stored account still has no locator
C25_Witness ==
  /\ answered.op = "ensure"
  /\ ~IsNull(answered.given)
  /\ answered.given.username = ""
  /\ answered.threw
  /\ NoLocatorSet(users[answered.given._id])

\* C26: when ensureUserResources returns from a call on an account with a
\* locator missing, the save has completed and the computed locators are on
\* the stored record: the account returned and the account in the store
\* carry the same four locators, all present.
C26_ProvisionBeforeUse ==
  (/\ answered.op = "ensure"
   /\ ~IsNull(answered.given)
   /\ ~AllLocatorsSet(answered.given)
   /\ ~answered.threw)
  => /\ answered.saved
     /\ AllLocatorsSet(answered.returned)
     /\ answered.returned._id \in DOMAIN users
     /\ AllLocatorsSet(users[answered.returned._id])
     /\ \A f \in LocatorFields :
          users[answered.returned._id][f] = answered.returned[f]

\* C27: the locators provisionResourcesForUser gives an account differ, in
\* each of the four locators, from those it gives any other account with
\* another id and another username, usernames that share a slug included.
C27_NoLocatorCollisions ==
  (answered.op = "provision" /\ ~answered.out.threw) =>
    \A userId \in AccountIds, username \in AccountUsernames :
      (userId # answered.userId /\ username # answered.username) =>
        \A f \in LocatorFields :
          provisionResourcesForUser(userId, username).resources[f]
            # answered.out.resources[f]

\* two outcomes of the post are failures of one kind: the same network error
\* code, or the same upstream status
SameFailureKind(a, b) ==
  /\ a.kind = b.kind
  /\ a.kind = "http" => a.status = b.status
  /\ a.kind = "network" => a.err.code = b.err.code

\* C28: the status runBot answers a failed post with is determined by the
\* kind of the failure: any other failure of the same kind, whatever text
\* the bot service put in it, is answered with the same status; and a DNS
\* failure is answered neither as a timeout (504) nor as unreachable (503).
C28_StatusByFailureKind ==
  (/\ answered.op = "bot"
   /\ answered.outcome.kind \in {"http", "network"}
   /\ answered.job.threw)
  => /\ \A other \in BotOutcomes :
          SameFailureKind(answered.outcome, other) =>
            \E job \in {JobOutcome(other, env.FASTAPI_BOT_URL,
                                   answered.request.timeout,
                                   answered.request.session_id)} :
              job.threw =>
                RunBotAnswer(job, answered.user.userId).status = answered.res.status
     /\ (answered.outcome.kind = "network"
         /\ answered.outcome.err.code = "ENOTFOUND")
          => answered.res.status \notin {503, 504}

\* the timeout of the claim: BOT_REQUEST_TIMEOUT when it is a positive
\* number, the default otherwise
ConfiguredTimeout ==
  IF ParseInt(env.BOT_REQUEST_TIMEOUT).nan \/ ParseInt(env.BOT_REQUEST_TIMEOUT).v <= 0
  THEN DefaultBotTimeout
  ELSE ParseInt(env.BOT_REQUEST_TIMEOUT).v

\* C29: every post is made with the configured timeout, 30000 ms when
\* BOT_REQUEST_TIMEOUT is unset or not a positive number; a post whose timer
\* ran out is answered as a timeout, 504; and every posted request is
\* eventually answered, the bot service having responded or not.
C29_BoundedDownstreamCall ==
  /\ [](\A c \in Calls :
          (calls[c].op = "bot" /\ calls[c].pc = "posted")
            => calls[c].request.timeout = ConfiguredTimeout)
  /\ []((answered.op = "bot" /\ answered.outcome.kind = "network"
         /\ answered.outcome.err.code = "ECONNABORTED")
        => /\ answered.res.status = 504
           /\ answered.job.threw
           /\ Includes(answered.job.message,
                       "timeout after " \o ToString(ConfiguredTimeout) \o "ms"))
  /\ \A c \in Calls :
       (calls[c].op = "bot" /\ calls[c].pc = "posted") ~> (calls[c].pc = "idle")

RECURSIVE SlugWords(_, _)
\* the maximal runs of characters of [a-z0-9] in s, in order; word is the run
\* being read
SlugWords(s, word) ==
  IF s = "" THEN (IF word = "" THEN <<>> ELSE <<word>>)
  ELSE IF IsSlugChar(CharAt(s, 1))
       THEN SlugWords(SubSeq(s, 2, Len(s)), word \o CharAt(s, 1))
       ELSE (IF word = "" THEN <<>> ELSE <<word>>)
              \o SlugWords(SubSeq(s, 2, Len(s)), "")

RECURSIVE JoinWords(_)
JoinWords(words) ==
  IF words = <<>> THEN ""
  ELSE IF Len(words) = 1 THEN words[1]
  ELSE words[1] \o "-" \o JoinWords(Tail(words))

\* the normal form of the claim: the runs of [a-z0-9] of the lowercased
\* username, a single hyphen between two of them and none at the ends
SlugNormalForm(value) == JoinWords(SlugWords(ToLowerCase(value), ""))

\* C30: toSlug returns the normal form of the username, and 'user' when that
\* is empty or the username is absent; the result is never empty, has only
\* characters of [a-z0-9-], no two adjacent hyphens, no hyphen at either end,
\* and toSlug applied to it returns it unchanged.
C30_SlugNormalForm ==
  answered.op = "toSlug" =>
    /\ answered.slug = OrElse(SlugNormalForm(answered.value), "user")
    /\ answered.value = "" => answered.slug = "user"
    /\ answered.slug # ""
    /\ \A i \in 1 .. Len(answered.slug) :
         IsSlugChar(CharAt(answered.slug, i)) \/ CharAt(answered.slug, i) = "-"
    /\ \A i \in 1 .. Len(answered.slug) - 1 :
         ~(CharAt(answered.slug, i) = "-" /\ CharAt(answered.slug, i + 1) = "-")
    /\ CharAt(answered.slug, 1) # "-"
    /\ CharAt(answered.slug, Len(answered.slug)) # "-"
    /\ toSlug(answered.slug) = answered.slug

\* a username with a run of two characters outside [a-z0-9] in the middle
\* and an upper-case letter has been slugged
C30_Witness ==
  /\ answered.op = "toSlug"
  /\ answered.value = "B_-1"
  /\ answered.slug = "b-1"

====
